---------------------------- MODULE Spec2Model ----------------------------
(***************************************************************************)
(* A model of package llrb (github.com/mars9/llrb): a left-leaning        *)
(* red-black tree whose transactions copy the branch they descend.        *)
(*                                                                         *)
(* Memory is modelled explicitly, because the package's behaviour depends  *)
(* on which nodes two trees share: `heap` maps a node address to the four  *)
(* fields of the node struct, `trees` maps a Tree address to the fields of *)
(* the Tree struct, and every method is an operator that threads the       *)
(* memory through the assignments of its Go body, in the order of the      *)
(* source.  A nil pointer is address 0.                                    *)
(*                                                                         *)
(* Go's allocator returns some fresh address and its collector frees what  *)
(* is unreachable; addresses are not observable.  After every operation    *)
(* the memory is therefore garbage collected and renumbered in depth-first *)
(* order from the program's roots (Normalize), so that two memories that   *)
(* differ only in the addresses are one state.                             *)
(***************************************************************************)
EXTENDS Integers, Sequences, FiniteSets, TLC

\* ------------------------------------------------------------------ bounds
\* Keys of the elements of SpecLin, and of every lookup: 1..MaxKey.
MaxKey == 4
\* Keys the caller inserts and deletes under Spec and SpecRd: 1..MaxForkKey.
MaxForkKey == 3
\* Payloads that distinguish two elements comparing equal: 1..MaxVal.
MaxVal == 2
\* Operations in one run of the caller under Spec.
MaxOps == 14
\* Keys of the trees the traversals of SpecTrav run on: 1..MaxTravKey.
MaxTravKey == 3
\* Operations the writer of SpecRd begins while the reader is in its ForEach.
MaxBeside == 3

Keys == 1..MaxKey
Vals == 1..MaxVal
ForkKeys == 1..MaxForkKey
TravKeys == 1..MaxTravKey

\* ---------------------------------------------------------------- node.go
red == FALSE
black == TRUE
nil == 0

\* The nil Element (an interface value holding nothing).
NoElem == [k |-> 0, v |-> 0]
\* The elements of the model: a key, which Compare reads, and a payload.
Elem(k, v) == [k |-> k, v |-> v]
Elems == {Elem(k, v) : k \in Keys, v \in Vals}
ForkElems == {Elem(k, v) : k \in ForkKeys, v \in Vals}
\* a.Compare(b) of the test suites' integer elements: int(a - b) on the key.
Compare(a, b) == a.k - b.k

\* A memory: the node heap, whether a nil dereference has panicked, the steps
\* the repairs of the running operation have taken so far (see Note), and
\* what the running operation has done to memory so far: the node structs it
\* has allocated (nw, as allocated) and its stores to fields of nodes (st),
\* each in program order.
Mem(h) == [h |-> h, pan |-> FALSE, log |-> <<>>, nw |-> <<>>, st |-> <<>>]
\* n.f = v: one store.
SetF(m, n, f, v) ==
    [m EXCEPT !.h[n] = [@ EXCEPT ![f] = v],
              !.st = Append(@, [n |-> n, f |-> f, v |-> v])]
Fld(m, n, f) == m.h[n][f]
\* &node{elem: elem, ...}: a fresh address holding the given fields.
NewNode(m, e, l, r, c) ==
    [m |-> [m EXCEPT !.h = Append(@, [elem |-> e, left |-> l, right |-> r, color |-> c]),
                     !.nw = Append(@, [elem |-> e, left |-> l, right |-> r, color |-> c])],
     n |-> Len(m.h) + 1]

copy(m, n) ==
    NewNode(m, Fld(m, n, "elem"), Fld(m, n, "left"), Fld(m, n, "right"), Fld(m, n, "color"))

\* A function's memory and its variable n, as it returns them.
Ret(m, n) == [m |-> m, n |-> n]
\* The same with the change d of the tree's size the call reports.
RetD(m, n, d) == [m |-> m, n |-> n, d |-> d]
\* `n = f(n)` inside a caller whose state is s: r is what f returned.
Then(s, r) == [s EXCEPT !.m = r.m, !.n = r.n]

\* The four assignments of rotateLeft once root := n.right is read.  The
\* colour of n that root takes is the one n had on entry: the two assignments
\* before it write child pointers only.
rotateLeftOn(m, n, root) ==
    Ret(SetF(SetF(SetF(SetF(m, n, "right", Fld(m, root, "left")),
                       root, "left", n),
                  root, "color", Fld(m, n, "color")),
             n, "color", red),
        root)

rotateLeft(m, n) == rotateLeftOn(m, n, Fld(m, n, "right"))

rotateRightOn(m, n, root) ==
    Ret(SetF(SetF(SetF(SetF(m, n, "left", Fld(m, root, "right")),
                       root, "right", n),
                  root, "color", Fld(m, n, "color")),
             n, "color", red),
        root)

rotateRight(m, n) == rotateRightOn(m, n, Fld(m, n, "left"))

\* x.color = !x.color; on a nil x the dereference panics.
Negate(m, x) ==
    IF x = nil THEN [m EXCEPT !.pan = TRUE]
    ELSE SetF(m, x, "color", ~Fld(m, x, "color"))

\* The third and the second-and-third statements of flipColors.
flipRight(m, n) == IF m.pan THEN m ELSE Negate(m, Fld(m, n, "right"))
flipLeft(m, n) == flipRight(Negate(m, Fld(m, n, "left")), n)

\* n.color, n.left.color, n.right.color are negated in this order; a nil
\* child is a nil pointer dereference, which panics after the earlier writes.
flipColors(m, n) == flipLeft(Negate(m, n), n)

isRed(m, n) == IF n = nil THEN FALSE ELSE Fld(m, n, "color") = red

\* The colours a repair step finds at the node it stands on: of the right
\* child, of the left child and of the left child's left child.
Colours(m, n) ==
    [right |-> isRed(m, Fld(m, n, "right")),
     left |-> isRed(m, Fld(m, n, "left")),
     leftleft |-> Fld(m, n, "left") # nil /\ isRed(m, Fld(m, Fld(m, n, "left"), "left"))]

\* The memory of the state s with one more step on its log: in the repair fn
\* ("fixUp", or "insert" for the repair inlined in node.insert) the if
\* statement number `step` found the colours `saw` and did, or did not,
\* execute its body.
Note(s, fn, step, did) ==
    [s.m EXCEPT !.log = Append(@, [fn |-> fn, step |-> step,
                                   saw |-> Colours(s.m, s.n), did |-> did])]

\* The three steps of fixUp, last first, on the state s = [m, n, ...].
fixUpFlip(s) ==
    IF isRed(s.m, Fld(s.m, s.n, "left")) /\ isRed(s.m, Fld(s.m, s.n, "right"))
    THEN [s EXCEPT !.m = flipColors(Note(s, "fixUp", 3, TRUE), s.n)]
    ELSE [s EXCEPT !.m = Note(s, "fixUp", 3, FALSE)]

fixUpRight(s) ==
    fixUpFlip(IF isRed(s.m, Fld(s.m, s.n, "left"))
                 /\ isRed(s.m, Fld(s.m, Fld(s.m, s.n, "left"), "left"))
              THEN Then(s, rotateRight(Note(s, "fixUp", 2, TRUE), s.n))
              ELSE [s EXCEPT !.m = Note(s, "fixUp", 2, FALSE)])

\* The first step of fixUp as the first step of insert's repair is written:
\* no left rotation when the left child is red too.
fixUpLeftUnlessLeftRed(s) ==
    fixUpRight(IF isRed(s.m, Fld(s.m, s.n, "right")) /\ ~isRed(s.m, Fld(s.m, s.n, "left"))
               THEN Then(s, rotateLeft(Note(s, "fixUp", 1, TRUE), s.n))
               ELSE [s EXCEPT !.m = Note(s, "fixUp", 1, FALSE)])

fixUpLeft(s) ==
    fixUpRight(IF isRed(s.m, Fld(s.m, s.n, "right"))
               THEN Then(s, rotateLeft(Note(s, "fixUp", 1, TRUE), s.n))
               ELSE [s EXCEPT !.m = Note(s, "fixUp", 1, FALSE)])

fixUp(m, n) == fixUpLeft(Ret(m, n))

\* flipColors(n) on the state s.
flipAt(s) == [s EXCEPT !.m = flipColors(s.m, s.n)]

\* `n.right = rotateRight(n.right); n = rotateLeft(n)` of moveRedLeft, where
\* r is what rotateRight returned.
moveRedLeftLink(r, n) == rotateLeft(SetF(r.m, n, "right", r.n), n)

\* moveRedLeft after its flipColors(n).
moveRedLeftRotate(m, n) ==
    IF m.pan THEN Ret(m, n)
    ELSE IF isRed(m, Fld(m, Fld(m, n, "right"), "left"))
    THEN flipAt(moveRedLeftLink(rotateRight(m, Fld(m, n, "right")), n))
    ELSE Ret(m, n)

moveRedLeft(m, n) == moveRedLeftRotate(flipColors(m, n), n)

\* moveRedRight after its flipColors(n).
moveRedRightRotate(m, n) ==
    IF m.pan THEN Ret(m, n)
    ELSE IF isRed(m, Fld(m, Fld(m, n, "left"), "left"))
    THEN flipAt(rotateRight(m, n))
    ELSE Ret(m, n)

moveRedRight(m, n) == moveRedRightRotate(flipColors(m, n), n)

RECURSIVE find(_, _, _)
find(h, n, elem) ==
    IF n = nil THEN nil
    ELSE IF Compare(elem, h[n].elem) = 0 THEN n
    ELSE IF Compare(elem, h[n].elem) < 0 THEN find(h, h[n].left, elem)
    ELSE find(h, h[n].right, elem)

\* The repair inlined at the end of node.insert, last step first.
insertFlip(s) ==
    IF isRed(s.m, Fld(s.m, s.n, "left")) /\ isRed(s.m, Fld(s.m, s.n, "right"))
    THEN [s EXCEPT !.m = flipColors(Note(s, "insert", 3, TRUE), s.n)]
    ELSE [s EXCEPT !.m = Note(s, "insert", 3, FALSE)]

insertRight(s) ==
    insertFlip(IF isRed(s.m, Fld(s.m, s.n, "left"))
                  /\ isRed(s.m, Fld(s.m, Fld(s.m, s.n, "left"), "left"))
               THEN Then(s, rotateRight(Note(s, "insert", 2, TRUE), s.n))
               ELSE [s EXCEPT !.m = Note(s, "insert", 2, FALSE)])

\* The repair without its left rotation: a red right link stays where the
\* insertion put it.
insertRepairNoRotateLeft(s) == insertRight(s)

insertRepair(s) ==
    insertRight(IF isRed(s.m, Fld(s.m, s.n, "right")) /\ ~isRed(s.m, Fld(s.m, s.n, "left"))
                THEN Then(s, rotateLeft(Note(s, "insert", 1, TRUE), s.n))
                ELSE [s EXCEPT !.m = Note(s, "insert", 1, FALSE)])

\* `n.left, ok = n.left.insert(elem)` (f = "left") and its mirror: sub is
\* what the recursive call returned, c the copy it was called on.
insertLink(c, f, sub) == RetD(SetF(sub.m, c.n, f, sub.n), c.n, sub.d)

\* The branch of node.insert for a non-nil node holding an element: c is the
\* copy of the node, cmp the comparison of elem with the copy's element.
RECURSIVE insert(_, _, _)
insertCompare(c, elem, cmp) ==
    insertRepair(
        IF cmp = 0 THEN RetD(SetF(c.m, c.n, "elem", elem), c.n, 0)
        ELSE IF cmp < 0
        THEN insertLink(c, "left", insert(c.m, Fld(c.m, c.n, "left"), elem))
        ELSE insertLink(c, "right", insert(c.m, Fld(c.m, c.n, "right"), elem)))

insertCopy(c, elem) == insertCompare(c, elem, Compare(elem, Fld(c.m, c.n, "elem")))

\* &node{elem: elem}, true
insertLeaf(c) == RetD(c.m, c.n, 1)

insert(m, n, elem) ==
    IF n = nil THEN insertLeaf(NewNode(m, elem, nil, nil, red))
    ELSE IF Fld(m, n, "elem") = NoElem THEN RetD(SetF(m, n, "elem", elem), n, 1)
    ELSE insertCopy(copy(m, n), elem)

\* `n.f = sub; return fixUp(n)` at the end of deleteMin (f = "left") and
\* deleteMax (f = "right"): a is the state before the recursive call, sub what
\* the call returned.  A panic below ends the function where it is.
deleteEndFix(a, f, sub) ==
    IF sub.m.pan THEN RetD(sub.m, a.n, 0)
    ELSE fixUpLeft(RetD(SetF(sub.m, a.n, f, sub.n), a.n, sub.d))

\* deleteMin and deleteMax work on the node they are given: they take no copy.
RECURSIVE deleteMin(_, _)
deleteMinDescend(a) ==
    IF a.m.pan THEN RetD(a.m, a.n, 0)
    ELSE deleteEndFix(a, "left", deleteMin(a.m, Fld(a.m, a.n, "left")))

deleteMin(m, n) ==
    IF Fld(m, n, "left") = nil THEN RetD(m, nil, -1)
    ELSE deleteMinDescend(IF ~isRed(m, Fld(m, n, "left"))
                             /\ ~isRed(m, Fld(m, Fld(m, n, "left"), "left"))
                          THEN moveRedLeft(m, n) ELSE Ret(m, n))

RECURSIVE deleteMax(_, _)
deleteMaxDescend(b) ==
    IF b.m.pan THEN RetD(b.m, b.n, 0)
    ELSE deleteEndFix(b, "right", deleteMax(b.m, Fld(b.m, b.n, "right")))

deleteMaxRight(a) ==
    IF Fld(a.m, a.n, "right") = nil THEN RetD(a.m, nil, -1)
    ELSE deleteMaxDescend(IF ~isRed(a.m, Fld(a.m, a.n, "right"))
                             /\ ~isRed(a.m, Fld(a.m, Fld(a.m, a.n, "right"), "left"))
                          THEN moveRedRight(a.m, a.n) ELSE a)

deleteMax(m, n) ==
    deleteMaxRight(IF Fld(m, n, "left") # nil /\ isRed(m, Fld(m, n, "left"))
                   THEN rotateRight(m, n) ELSE Ret(m, n))

RECURSIVE min(_, _)
min(h, n) == IF h[n].left # nil THEN min(h, h[n].left) ELSE n

RECURSIVE max(_, _)
max(h, n) == IF h[n].right # nil THEN max(h, h[n].right) ELSE n

\* What a half of node.delete hands to its end: fin says the function has
\* returned already (the early `return nil, -1`, or a panic).
RetF(m, n, d, fin) == [m |-> m, n |-> n, d |-> d, fin |-> fin]

\* `n.f, done = sub` in node.delete: a is the state before the call.
deleteLink(a, f, sub) ==
    IF sub.m.pan THEN RetF(sub.m, a.n, 0, TRUE)
    ELSE RetF(SetF(sub.m, a.n, f, sub.n), a.n, sub.d, FALSE)

RECURSIVE delete(_, _, _)
deleteLeftDescend(a, elem) ==
    IF a.m.pan THEN RetF(a.m, a.n, 0, TRUE)
    ELSE deleteLink(a, "left", delete(a.m, Fld(a.m, a.n, "left"), elem))

\* The half of node.delete for elem below the copy `root`.
deleteLeft(m, root, elem) ==
    IF Fld(m, root, "left") = nil THEN RetF(m, root, 0, FALSE)
    ELSE deleteLeftDescend(IF ~isRed(m, Fld(m, root, "left"))
                              /\ ~isRed(m, Fld(m, Fld(m, root, "left"), "left"))
                           THEN moveRedLeft(m, root) ELSE Ret(m, root),
                           elem)

\* `n.elem = n.right.min().elem; n.right = n.right.deleteMin()`
deleteSuccessor(b) ==
    deleteLink(b, "right",
               deleteMin(SetF(b.m, b.n, "elem", b.m.h[min(b.m.h, Fld(b.m, b.n, "right"))].elem),
                         Fld(b.m, b.n, "right")))

deleteRightDescend(b, elem) ==
    IF b.m.pan THEN RetF(b.m, b.n, 0, TRUE)
    ELSE IF Compare(elem, Fld(b.m, b.n, "elem")) = 0 THEN deleteSuccessor(b)
    ELSE deleteLink(b, "right", delete(b.m, Fld(b.m, b.n, "right"), elem))

deleteRightFound(a, elem) ==
    IF Fld(a.m, a.n, "right") = nil /\ Compare(elem, Fld(a.m, a.n, "elem")) = 0
    THEN RetF(a.m, nil, -1, TRUE)
    ELSE IF Fld(a.m, a.n, "right") = nil THEN RetF(a.m, a.n, 0, FALSE)
    ELSE deleteRightDescend(IF ~isRed(a.m, Fld(a.m, a.n, "right"))
                               /\ ~isRed(a.m, Fld(a.m, Fld(a.m, a.n, "right"), "left"))
                            THEN moveRedRight(a.m, a.n) ELSE a,
                            elem)

\* The half of node.delete for elem at or above the copy `root`.
deleteRight(m, root, elem) ==
    deleteRightFound(IF isRed(m, Fld(m, root, "left")) THEN rotateRight(m, root)
                     ELSE Ret(m, root),
                     elem)

\* `return n.fixUp(), done`, unless the function has returned.
deleteEnd(r) ==
    IF r.fin THEN RetD(r.m, r.n, r.d) ELSE fixUpLeft(RetD(r.m, r.n, r.d))

deleteBranch(c, elem) ==
    IF Compare(elem, Fld(c.m, c.n, "elem")) < 0 THEN deleteLeft(c.m, c.n, elem)
    ELSE deleteRight(c.m, c.n, elem)

delete(m, n, elem) == deleteEnd(deleteBranch(copy(m, n), elem))

\* node.do with a visitor that records the element it is given and returns
\* true on the elements whose key is in S.  The result is the sequence of
\* elements the visitor was called on and the boolean node.do returns.
RECURSIVE do(_, _, _)
\* node.do without its two early returns: the walk goes on after a visitor
\* call has returned true, and reports the last call's answer.
doNeverReturnsEarly(h, n, S) ==
    LET l == IF h[n].left # nil THEN do(h, h[n].left, S).out ELSE <<>>
    IN IF h[n].right # nil
       THEN [out |-> Append(l, h[n].elem) \o do(h, h[n].right, S).out,
             done |-> do(h, h[n].right, S).done]
       ELSE [out |-> Append(l, h[n].elem), done |-> h[n].elem.k \in S]

do(h, n, S) ==
    LET l == IF h[n].left # nil THEN do(h, h[n].left, S)
             ELSE [out |-> <<>>, done |-> FALSE]
    IN IF l.done THEN l
       ELSE IF h[n].elem.k \in S
       THEN [out |-> Append(l.out, h[n].elem), done |-> TRUE]
       ELSE IF h[n].right # nil
       THEN LET r == do(h, h[n].right, S)
            IN [out |-> Append(l.out, h[n].elem) \o r.out, done |-> r.done]
       ELSE [out |-> Append(l.out, h[n].elem), done |-> FALSE]

RECURSIVE doRange(_, _, _, _, _)
doRange(h, n, lo, hi, S) ==
    LET lc == Compare(lo, h[n].elem)
        hc == Compare(hi, h[n].elem)
        l == IF lc <= 0 /\ h[n].left # nil THEN doRange(h, h[n].left, lo, hi, S)
             ELSE [out |-> <<>>, done |-> FALSE]
    IN IF l.done THEN l
       ELSE LET here == IF lc <= 0 /\ hc > 0
                        THEN [out |-> Append(l.out, h[n].elem), done |-> h[n].elem.k \in S]
                        ELSE [out |-> l.out, done |-> FALSE]
            IN IF here.done THEN here
               ELSE IF hc > 0 /\ h[n].right # nil
               THEN LET r == doRange(h, h[n].right, lo, hi, S)
                    IN [out |-> here.out \o r.out, done |-> r.done]
               ELSE [out |-> here.out, done |-> l.done]

\* ---------------------------------------------------------------- tree.go
\* A Tree struct; the zero Tree is the empty tree.
Tree(root, size) == [root |-> root, size |-> size]
EmptyTree == Tree(nil, 0)

\* Tree.Range: the visitor's calls, the result, and whether Range panicked.
Range(h, t, from, to, S) ==
    IF t.root = nil THEN [out |-> <<>>, done |-> FALSE, pan |-> FALSE]
    ELSE IF Compare(from, to) > 0 THEN [out |-> <<>>, done |-> FALSE, pan |-> TRUE]
    ELSE LET r == doRange(h, t.root, from, to, S)
         IN [out |-> r.out, done |-> r.done, pan |-> FALSE]

ForEach(h, t, S) ==
    IF t.root = nil THEN [out |-> <<>>, done |-> FALSE] ELSE do(h, t.root, S)

\* Get, Max and Min return NoElem for Go's nil Element.
Get(h, t, elem) ==
    IF t.root = nil THEN NoElem
    ELSE LET n == find(h, t.root, elem)
         IN IF n = nil THEN NoElem ELSE h[n].elem

Max(h, t) == IF t.root = nil THEN NoElem ELSE h[max(h, t.root)].elem

Min(h, t) == IF t.root = nil THEN NoElem ELSE h[min(h, t.root)].elem

TreeLen(t) == t.size

\* Tree.Snapshot of the Tree at address tid (nil: the empty tree): the new
\* Tree's fields and the memory holding the copy of the root node.
Snapshot(m, trs, tid) ==
    IF tid = nil THEN [m |-> m, t |-> EmptyTree]
    ELSE IF trs[tid].root = nil THEN [m |-> m, t |-> Tree(nil, trs[tid].size)]
    ELSE LET c == copy(m, trs[tid].root)
         IN [m |-> c.m, t |-> Tree(c.n, trs[tid].size)]

\* The Txn methods on the Tree t the transaction holds: the memory and the
\* Tree's fields afterwards.  A panic leaves the Tree's fields as they were.
TxnInsertStore(r, t) ==
    [m |-> SetF(r.m, r.n, "color", black), t |-> Tree(r.n, t.size + r.d)]

TxnInsert(m, t, elem) == TxnInsertStore(insert(m, t.root, elem), t)

\* The common tail of Txn.Delete, Txn.DeleteMax and Txn.DeleteMin.
TxnStore(r, t) ==
    IF r.m.pan THEN [m |-> r.m, t |-> t]
    ELSE IF r.n = nil THEN [m |-> r.m, t |-> Tree(nil, t.size + r.d)]
    ELSE [m |-> SetF(r.m, r.n, "color", black), t |-> Tree(r.n, t.size + r.d)]

TxnDelete(m, t, elem) ==
    IF t.root = nil THEN [m |-> m, t |-> t] ELSE TxnStore(delete(m, t.root, elem), t)

TxnDeleteMax(m, t) ==
    IF t.root = nil THEN [m |-> m, t |-> t] ELSE TxnStore(deleteMax(m, t.root), t)

TxnDeleteMin(m, t) ==
    IF t.root = nil THEN [m |-> m, t |-> t] ELSE TxnStore(deleteMin(m, t.root), t)

\* ------------------------------------------------------------------ state
VARIABLES
    heap,      \* node address -> node struct
    trees,     \* Tree address -> Tree struct
    tree,      \* the caller's variable `tree`: the address of a Tree
    txn,       \* the Tree address the caller's Txn holds, nil before the first Txn()
    based,     \* txn was begun from the Tree `tree` still holds
    panicked,  \* a nil dereference has ended the program
    steps,     \* operations the caller has made (counted under Spec)
    rd,        \* the reader goroutine of SpecRd: its position in Tree.ForEach
    trav,      \* the caller's last ForEach or Range (recorded under SpecTrav)
    trace,     \* the repair steps of the caller's last operation (under SpecFix)
    wr         \* the writer's Txn method in progress beside the reader (SpecRd)

vars == <<heap, trees, tree, txn, based, panicked, steps, rd, trav, trace, wr>>

\* ------------------------------------------------ addresses and collection
RECURSIVE Visit(_, _, _)
Visit(h, n, acc) ==
    IF n = nil \/ (\E i \in 1..Len(acc) : acc[i] = n) THEN acc
    ELSE Visit(h, h[n].right, Visit(h, h[n].left, Append(acc, n)))

RECURSIVE VisitAll(_, _, _)
VisitAll(h, roots, acc) ==
    IF roots = <<>> THEN acc ELSE VisitAll(h, Tail(roots), Visit(h, Head(roots), acc))

AddUnique(seq, x) ==
    IF x = nil \/ (\E i \in 1..Len(seq) : seq[i] = x) THEN seq ELSE Append(seq, x)

Pos(seq, x) == IF x = nil THEN nil ELSE CHOOSE i \in 1..Len(seq) : seq[i] = x

\* The memory with the unreachable Trees and nodes dropped and the rest
\* renumbered in the order the roots reach them: the caller's tree, the
\* Txn's tree, the frames of the reader's stack.
Normalize(h, trs, tr, tx, r) ==
    LET lt == AddUnique(AddUnique(<<>>, tr), tx)
        ln == VisitAll(h, [i \in 1..Len(lt) |-> trs[lt[i]].root]
                          \o [i \in 1..Len(r.stack) |-> r.stack[i].n], <<>>)
    IN [heap |-> [i \in 1..Len(ln) |->
                    [elem |-> h[ln[i]].elem, left |-> Pos(ln, h[ln[i]].left),
                     right |-> Pos(ln, h[ln[i]].right), color |-> h[ln[i]].color]],
        trees |-> [i \in 1..Len(lt) |-> Tree(Pos(ln, trs[lt[i]].root), trs[lt[i]].size)],
        tree |-> Pos(lt, tr),
        txn |-> Pos(lt, tx),
        rd |-> [r EXCEPT !.stack = [i \in 1..Len(r.stack) |->
                                      [n |-> Pos(ln, r.stack[i].n), ph |-> r.stack[i].ph]]]]

\* No traversal has been made since the tree last changed.
NoTrav == [fn |-> "none", stop |-> {}, out |-> <<>>, done |-> FALSE, full |-> <<>>]

\* The writer is between two calls.
WrIdle == [pc |-> "idle", q |-> <<>>, t |-> EmptyTree, pan |-> FALSE, ops |-> 0]

Idle == [pc |-> "idle", stack |-> <<>>, out |-> <<>>, exp |-> <<>>]

\* The program starts as the tests do: tree := &Tree{}, and no Txn yet.
Init ==
    /\ heap = <<>>
    /\ trees = <<EmptyTree>>
    /\ tree = 1
    /\ txn = nil
    /\ based = FALSE
    /\ panicked = FALSE
    /\ steps = 0
    /\ rd = Idle
    /\ trav = NoTrav
    /\ trace = <<>>
    /\ wr = WrIdle

Store(h, trs, tr, tx, r) ==
    LET s == Normalize(h, trs, tr, tx, r)
    IN /\ heap' = s.heap
       /\ trees' = s.trees
       /\ tree' = s.tree
       /\ txn' = s.txn
       /\ rd' = s.rd

\* txn = tree.Txn()
TreeTxn ==
    /\ ~panicked
    /\ LET r == Snapshot(Mem(heap), trees, tree)
       IN Store(r.m.h, Append(trees, r.t), tree, Len(trees) + 1, rd)
    /\ based' = TRUE
    /\ UNCHANGED panicked

\* tree = txn.Commit()
TxnCommit ==
    /\ ~panicked
    /\ txn # nil
    /\ Store(heap, trees, txn, txn, rd)
    /\ based' = FALSE
    /\ UNCHANGED panicked

\* The effect of a Txn method that returned r = [m, t].
Apply(r) ==
    /\ Store(r.m.h, [trees EXCEPT ![txn] = r.t], tree, txn, rd)
    /\ panicked' = r.m.pan
    /\ UNCHANGED based

Mutable == ~panicked /\ txn # nil

Insert(e) == Mutable /\ Apply(TxnInsert(Mem(heap), trees[txn], e))

Delete(e) == Mutable /\ Apply(TxnDelete(Mem(heap), trees[txn], e))

DeleteMin == Mutable /\ Apply(TxnDeleteMin(Mem(heap), trees[txn]))

DeleteMax == Mutable /\ Apply(TxnDeleteMax(Mem(heap), trees[txn]))

\* The caller under Spec: a transaction may be begun from the tree at any
\* time, abandoned, or used after Commit; a run makes at most MaxOps
\* operations.
Tick == steps < MaxOps /\ steps' = steps + 1 /\ UNCHANGED <<trav, trace, wr>>

DoTxn == Tick /\ TreeTxn
DoCommit == Tick /\ TxnCommit
DoInsert == \E e \in ForkElems : Tick /\ Insert(e)
DoDelete == \E k \in ForkKeys : Tick /\ Delete(Elem(k, 1))
DoDeleteMin == Tick /\ DeleteMin
DoDeleteMax == Tick /\ DeleteMax

Next == DoTxn \/ DoCommit \/ DoInsert \/ DoDelete \/ DoDeleteMin \/ DoDeleteMax

Spec == Init /\ [][Next]_vars

\* The caller under SpecLin uses the package as its tests do: tree.Txn(),
\* operations, tree = txn.Commit(), and again, every transaction begun from
\* the latest committed tree and committed before the next begins.  The
\* elements are the integers of the tests (one payload).  The run is
\* unbounded.
Open == txn # nil /\ txn # tree

LinTxn == ~Open /\ TreeTxn /\ UNCHANGED <<steps, trav, trace, wr>>
LinCommit == Open /\ TxnCommit /\ UNCHANGED <<steps, trav, trace, wr>>
LinInsert == \E k \in Keys : Open /\ Insert(Elem(k, 1)) /\ UNCHANGED <<steps, trav, trace, wr>>
LinDelete == \E k \in Keys : Open /\ Delete(Elem(k, 1)) /\ UNCHANGED <<steps, trav, trace, wr>>
LinDeleteMin == Open /\ DeleteMin /\ UNCHANGED <<steps, trav, trace, wr>>
LinDeleteMax == Open /\ DeleteMax /\ UNCHANGED <<steps, trav, trace, wr>>

NextLin == LinTxn \/ LinCommit \/ LinInsert \/ LinDelete \/ LinDeleteMin \/ LinDeleteMax

SpecLin == Init /\ [][NextLin]_vars

\* A reader goroutine runs tree.ForEach with a visitor that appends the
\* element to rd.out and never stops, one read of a node per step, while the
\* caller goes on.  A frame of node.do is the node and the place in its body:
\* 0 before `n.left != nil`, 1 before `fn(n.elem)`, 2 before `n.right != nil`.
\* rd.exp is what ForEach visits when it runs alone from the same state.
Frame(n, ph) == [n |-> n, ph |-> ph]

\* ForEach reads t.root of the caller's Tree, which no method of the Txn
\* writes: a reader that starts while the writer is inside a call is a reader
\* that started before the call and has read no node yet.
RdStart ==
    /\ ~panicked
    /\ rd.pc = "idle"
    /\ wr.pc = "idle"
    /\ txn # nil /\ based
    /\ LET exp == ForEach(heap, trees[tree], {}).out
       IN IF trees[tree].root = nil
          THEN rd' = [pc |-> "done", stack |-> <<>>, out |-> <<>>, exp |-> exp]
          ELSE rd' = [pc |-> "run", stack |-> <<Frame(trees[tree].root, 0)>>,
                      out |-> <<>>, exp |-> exp]
    /\ UNCHANGED <<heap, trees, tree, txn, based, panicked, steps, trav, trace, wr>>

\* The reader's next read, from the frame on top of its stack.
RdNext(r) ==
    LET d == Len(r.stack)
        f == r.stack[d]
        below == SubSeq(r.stack, 1, d - 1)
        ret(st) == [r EXCEPT !.stack = st, !.pc = IF st = <<>> THEN "done" ELSE "run"]
    IN IF f.ph = 0
       THEN IF heap[f.n].left # nil
            THEN [r EXCEPT !.stack = below \o <<Frame(f.n, 1), Frame(heap[f.n].left, 0)>>]
            ELSE [r EXCEPT !.stack = below \o <<Frame(f.n, 1)>>]
       ELSE IF f.ph = 1
       THEN [r EXCEPT !.stack = below \o <<Frame(f.n, 2)>>,
                      !.out = Append(r.out, heap[f.n].elem)]
       ELSE IF heap[f.n].right # nil
       THEN [r EXCEPT !.stack = below \o <<Frame(heap[f.n].right, 0)>>]
       ELSE ret(below)

\* One read of the reader.  While the writer is inside a call the addresses
\* stay as they are: the stores the call has still to make name them.
RdStep ==
    /\ ~panicked
    /\ rd.pc = "run"
    /\ IF wr.pc = "idle"
       THEN Store(heap, trees, tree, txn, RdNext(rd))
       ELSE rd' = RdNext(rd) /\ UNCHANGED <<heap, trees, tree, txn>>
    /\ UNCHANGED <<based, panicked, steps, trav, trace, wr>>

\* The writer of SpecRd is the caller of SpecLin over the keys of Spec.  A
\* method of its Txn is not one step beside the reader: the reader may read
\* between any two of the method's stores to nodes.  The writer is alone in
\* writing, so what a call allocates and stores is fixed when it is entered:
\* r is the call run from the memory at entry.  Its node structs are
\* allocated at entry (no reader reaches one before a store links it), its
\* stores are then made one per step in program order, and the Tree's fields
\* are written when it returns.  No method that reads a tree (find, min,
\* max, do, doRange) reads a colour: a store to a colour is taken with the
\* store before it.  The run ends when the reader's ForEach has returned,
\* and the writer begins at most MaxBeside operations while it runs.
Beside == rd.pc # "done"
MayBegin == Beside /\ wr.pc = "idle" /\ (rd.pc = "run" => wr.ops < MaxBeside)
Begun == IF rd.pc = "run" THEN wr.ops + 1 ELSE wr.ops

WrTxn ==
    /\ MayBegin /\ ~Open /\ TreeTxn
    /\ wr' = [wr EXCEPT !.ops = Begun]
    /\ UNCHANGED <<steps, trav, trace>>
WrCommit ==
    /\ MayBegin /\ Open /\ TxnCommit
    /\ wr' = [wr EXCEPT !.ops = Begun]
    /\ UNCHANGED <<steps, trav, trace>>

\* The memory h and the stores q still to make, once the stores to colours
\* at the head of q are made.
RECURSIVE Colour(_, _)
Colour(h, q) ==
    IF q = <<>> \/ Head(q).f # "color" THEN [h |-> h, q |-> q]
    ELSE Colour([h EXCEPT ![Head(q).n].color = Head(q).v], Tail(q))

WrCall(r) ==
    /\ heap' = Colour(heap \o r.m.nw, r.m.st).h
    /\ wr' = [pc |-> "busy", q |-> Colour(heap \o r.m.nw, r.m.st).q, t |-> r.t, pan |-> r.m.pan,
              ops |-> Begun]
    /\ UNCHANGED <<trees, tree, txn, based, panicked, steps, rd, trav, trace>>

Enter == MayBegin /\ Open /\ Mutable

WrInsert ==
    \E k \in ForkKeys : Enter /\ WrCall(TxnInsert(Mem(heap), trees[txn], Elem(k, 1)))
WrDelete ==
    \E k \in ForkKeys : Enter /\ WrCall(TxnDelete(Mem(heap), trees[txn], Elem(k, 1)))
WrDeleteMin == Enter /\ WrCall(TxnDeleteMin(Mem(heap), trees[txn]))
WrDeleteMax == Enter /\ WrCall(TxnDeleteMax(Mem(heap), trees[txn]))

\* One store of n.f = v on the memory h.
StoreOne(h, s) == [h EXCEPT ![s.n] = [@ EXCEPT ![s.f] = s.v]]

\* The next store of the call in progress.
WrStore ==
    /\ Beside
    /\ wr.pc = "busy"
    /\ wr.q # <<>>
    /\ heap' = Colour(StoreOne(heap, Head(wr.q)), Tail(wr.q)).h
    /\ wr' = [wr EXCEPT !.q = Colour(StoreOne(heap, Head(wr.q)), Tail(wr.q)).q]
    /\ UNCHANGED <<trees, tree, txn, based, panicked, steps, rd, trav, trace>>

\* The call returns, or ends in the panic of a nil dereference.
WrReturn ==
    /\ Beside
    /\ wr.pc = "busy"
    /\ wr.q = <<>>
    /\ Store(heap, [trees EXCEPT ![txn] = wr.t], tree, txn, rd)
    /\ panicked' = wr.pan
    /\ wr' = [WrIdle EXCEPT !.ops = wr.ops]
    /\ UNCHANGED <<based, steps, trav, trace>>

NextRd ==
    \/ WrTxn \/ WrCommit \/ WrInsert \/ WrDelete \/ WrDeleteMin \/ WrDeleteMax
    \/ WrStore \/ WrReturn
    \/ RdStart \/ RdStep

SpecRd == Init /\ [][NextRd]_vars

\* ---------------------------------------------------------------- SpecTrav
\* The caller of SpecLin over the keys 1..MaxTravKey, who between two
\* operations calls ForEach or Range on the tree it holds with a visitor that
\* records the element it is given and returns true on the keys in `stop`.
\* `trav` is the call: the elements the visitor was called on, the boolean
\* returned, and (full) the elements a visitor that never stops is called on.
\* A traversal writes nothing to the tree, so one call is recorded per state
\* of the tree: the next call is made after the next operation.
\* The visitors: one that never returns true, and for each key one that
\* returns true on that key.
Stops == {{}} \cup {{k} : k \in TravKeys}
TravBounds == {<<a, b>> \in (0..MaxTravKey + 1) \X (0..MaxTravKey + 1) : a <= b}

Changed == UNCHANGED <<steps, trace, wr>> /\ trav' = NoTrav

TrvTxn == ~Open /\ TreeTxn /\ Changed
TrvCommit == Open /\ TxnCommit /\ Changed
TrvInsert == \E k \in TravKeys : Open /\ Insert(Elem(k, 1)) /\ Changed
TrvDelete == \E k \in TravKeys : Open /\ Delete(Elem(k, 1)) /\ Changed
TrvDeleteMin == Open /\ DeleteMin /\ Changed
TrvDeleteMax == Open /\ DeleteMax /\ Changed

Traversal(fn, S, r, full) ==
    [fn |-> fn, stop |-> S, out |-> r.out, done |-> r.done, full |-> full.out]

TrvForEach ==
    \E S \in Stops :
        /\ ~panicked
        /\ trav = NoTrav
        /\ trav' = Traversal("ForEach", S, ForEach(heap, trees[tree], S),
                             ForEach(heap, trees[tree], {}))
        /\ UNCHANGED <<heap, trees, tree, txn, based, panicked, steps, rd, trace, wr>>

TrvRange ==
    \E S \in Stops : \E b \in TravBounds :
        /\ ~panicked
        /\ trav = NoTrav
        /\ trav' = Traversal("Range", S,
                             Range(heap, trees[tree], Elem(b[1], 1), Elem(b[2], 1), S),
                             Range(heap, trees[tree], Elem(b[1], 1), Elem(b[2], 1), {}))
        /\ UNCHANGED <<heap, trees, tree, txn, based, panicked, steps, rd, trace, wr>>

NextTrav ==
    \/ TrvTxn \/ TrvCommit \/ TrvInsert \/ TrvDelete \/ TrvDeleteMin \/ TrvDeleteMax
    \/ TrvForEach \/ TrvRange

SpecTrav == Init /\ [][NextTrav]_vars

\* ----------------------------------------------------------------- SpecFix
\* The caller of SpecLin, with the steps the repairs took during the
\* operation that has just returned kept in `trace`, in the order they were
\* taken.  The log belongs to the call: it is dropped before the next one.
Traced(r) == trace = <<>> /\ Apply(r) /\ trace' = r.m.log /\ UNCHANGED <<steps, trav, wr>>
Untraced == trace = <<>> /\ UNCHANGED <<steps, trav, trace, wr>>

FixTxn == ~Open /\ TreeTxn /\ Untraced
FixCommit == Open /\ TxnCommit /\ Untraced
FixInsert ==
    \E k \in Keys : Open /\ Mutable /\ Traced(TxnInsert(Mem(heap), trees[txn], Elem(k, 1)))
FixDelete ==
    \E k \in Keys : Open /\ Mutable /\ Traced(TxnDelete(Mem(heap), trees[txn], Elem(k, 1)))
FixDeleteMin == Open /\ Mutable /\ Traced(TxnDeleteMin(Mem(heap), trees[txn]))
FixDeleteMax == Open /\ Mutable /\ Traced(TxnDeleteMax(Mem(heap), trees[txn]))
FixReturn ==
    /\ trace # <<>>
    /\ trace' = <<>>
    /\ UNCHANGED <<heap, trees, tree, txn, based, panicked, steps, rd, trav, wr>>

NextFix ==
    \/ FixTxn \/ FixCommit \/ FixInsert \/ FixDelete \/ FixDeleteMin \/ FixDeleteMax
    \/ FixReturn

SpecFix == Init /\ [][NextFix]_vars

\* ------------------------------------------------- what a caller observes
\* Every answer a Tree gives: the elements ForEach and Range visit with a
\* visitor that never stops, Len, Min, Max, and Get of every key.
Bounds == {<<a, b>> \in (0..MaxKey + 1) \X (0..MaxKey + 1) : a <= b}
Queries(h, t) ==
    [each |-> ForEach(h, t, {}).out,
     len |-> TreeLen(t),
     min |-> Min(h, t),
     max |-> Max(h, t),
     get |-> [k \in Keys |-> Get(h, t, Elem(k, 1))],
     range |-> [b \in Bounds |-> Range(h, t, Elem(b[1], 1), Elem(b[2], 1), {}).out]]

\* The nodes below n as the values of their fields (addresses unfolded).
RECURSIVE Shape(_, _)
Shape(h, n) ==
    IF n = nil THEN <<>>
    ELSE <<h[n].elem, h[n].color, Shape(h, h[n].left), Shape(h, h[n].right)>>

RECURSIVE Reach(_, _)
Reach(h, n) ==
    IF n = nil THEN {} ELSE {n} \cup Reach(h, h[n].left) \cup Reach(h, h[n].right)

\* The tree predicates of the package's tests (example_test.go).
RECURSIVE is23(_, _)
is23(h, n) ==
    IF n = nil THEN TRUE
    ELSE IF h[n].left # nil /\ h[n].right # nil
            /\ isRed(Mem(h), h[n].left) /\ isRed(Mem(h), h[n].right) THEN FALSE
    ELSE IF isRed(Mem(h), h[n].right) THEN FALSE
    ELSE IF isRed(Mem(h), n) /\ isRed(Mem(h), h[n].left) THEN FALSE
    ELSE is23(h, h[n].left) /\ is23(h, h[n].right)

RECURSIVE isBalancedNode(_, _, _)
isBalancedNode(h, n, blk) ==
    IF n = nil THEN blk = 0
    ELSE LET b == IF ~isRed(Mem(h), n) THEN blk - 1 ELSE blk
         IN isBalancedNode(h, h[n].left, b) /\ isBalancedNode(h, h[n].right, b)

RECURSIVE LeftBlacks(_, _)
LeftBlacks(h, x) ==
    IF x = nil THEN 0
    ELSE (IF ~isRed(Mem(h), x) THEN 1 ELSE 0) + LeftBlacks(h, h[x].left)

isBalanced(h, t) == isBalancedNode(h, t.root, LeftBlacks(h, t.root))

RECURSIVE isBSTNode(_, _, _, _)
isBSTNode(h, n, lo, hi) ==
    IF n = nil THEN TRUE
    ELSE IF Compare(h[n].elem, lo) < 0 \/ Compare(h[n].elem, hi) > 0 THEN FALSE
    ELSE isBSTNode(h, h[n].left, lo, h[n].elem) /\ isBSTNode(h, h[n].right, h[n].elem, hi)

isBST(h, t) == isBSTNode(h, t.root, Min(h, t), Max(h, t))

\* What the tests require of a tree: isBST, is23 and isBalanced.  isBST lets
\* a node hold the element of its parent.
IsLLRB(h, t) ==
    /\ isBST(h, t)
    /\ is23(h, t.root)
    /\ isBalanced(h, t)

\* The in-order sequence has no two elements out of order and no two equal.
StrictlyIncreasing(seq) == \A i \in 1..Len(seq) - 1 : Compare(seq[i], seq[i + 1]) < 0

\* No node below n is its own descendant: every traversal from n ends.
RECURSIVE Acyc(_, _, _)
Acyc(h, n, path) ==
    IF n = nil THEN TRUE
    ELSE IF n \in path THEN FALSE
    ELSE Acyc(h, h[n].left, path \cup {n}) /\ Acyc(h, h[n].right, path \cup {n})

Acyclic(h, trs) == \A t \in 1..Len(trs) : Acyc(h, trs[t].root, {})

DelFamily == DeleteMin \/ DeleteMax \/ \E k \in Keys : Delete(Elem(k, 1))
AnyInsert == \E e \in Elems : Insert(e)

\* -------------------------------------------------------------- properties
\* C6: under linear use, after every Insert, Delete, DeleteMin or DeleteMax
\* the transaction's tree is a valid left-leaning red-black tree: its in-order
\* sequence is strictly increasing, no node has a red right child, no red
\* node has a red left child, every root-to-nil path has as many black nodes.
C6_ValidLLRB ==
    txn # nil =>
        /\ IsLLRB(heap, trees[txn])
        /\ StrictlyIncreasing(ForEach(heap, trees[txn], {}).out)

\* A transaction begun from a committed tree of four elements holds three:
\* a delete has rebalanced a tree of two levels.
C6_Witness ==
    /\ Open
    /\ trees[tree].size = 4
    /\ trees[txn].size = 3
    /\ Len(ForEach(heap, trees[txn], {}).out) = 3

\* C1: Delete, DeleteMin and DeleteMax on a transaction begun from the tree
\* the caller holds leave every answer of that tree as it was.
C1_DeleteIsolation ==
    [][(based /\ DelFamily) =>
        Queries(heap', trees'[tree']) = Queries(heap, trees[tree])]_vars

\* C2: Insert on a transaction begun from the tree the caller holds leaves
\* every answer of that tree as it was.
C2_InsertIsolation ==
    [][(based /\ AnyInsert /\ Acyclic(heap', trees')) =>
        Queries(heap', trees'[tree']) = Queries(heap, trees[tree])]_vars

\* C3: no operation on a transaction begun from the tree the caller holds
\* changes the element, the colour or a child of a node of that tree, and the
\* tree stays a valid left-leaning red-black tree.
C3_NodesUntouched ==
    [][(based /\ (AnyInsert \/ DelFamily)) =>
        /\ Shape(heap', trees'[tree'].root) = Shape(heap, trees[tree].root)
        /\ (IsLLRB(heap, trees[tree]) => IsLLRB(heap', trees'[tree']))]_vars

\* C4: a ForEach that runs beside the writer visits what it visits alone.
C4_ReaderUnaffected == rd.pc = "done" => rd.out = rd.exp

\* C5: an operation on the Txn after Commit leaves the Len, the root and the
\* elements of the Tree that Commit returned as they were.
C5_CommittedImmutable ==
    [][(txn # nil /\ txn = tree /\ (AnyInsert \/ DelFamily)) =>
        /\ TreeLen(trees'[tree']) = TreeLen(trees[tree])
        /\ Shape(heap', trees'[tree'].root) = Shape(heap, trees[tree].root)
        /\ ForEach(heap', trees'[tree'], {}).out = ForEach(heap, trees[tree], {}).out]_vars

\* C7: Len() of the caller's tree and of the transaction's tree is the number
\* of nodes reachable from the root.
C7_LenCountsNodes ==
    \A t \in 1..Len(trees) : TreeLen(trees[t]) = Cardinality(Reach(heap, trees[t].root))

\* C8: after Insert(e) the transaction's Get of e's key returns e, and its
\* Get of every other key returns what it returned before.
C8_InsertUpsert ==
    [][\A e \in Elems : (Insert(e) /\ Acyclic(heap', trees')) =>
        /\ ~panicked'
        /\ Get(heap', trees'[txn'], e) = e
        /\ \A j \in Keys \ {e.k} :
              Get(heap', trees'[txn'], Elem(j, 1)) = Get(heap, trees[txn], Elem(j, 1))]_vars

\* C9: after Delete(k) the transaction's Get(k) is absent, its Len is one
\* less if k was present and unchanged otherwise, and the other elements are
\* visited as before.
Without(seq, k) == SelectSeq(seq, LAMBDA x : x.k # k)
C9_DeleteExact ==
    [][\A k \in Keys : Delete(Elem(k, 1)) =>
        /\ ~panicked'
        /\ Get(heap', trees'[txn'], Elem(k, 1)) = NoElem
        /\ TreeLen(trees'[txn']) = TreeLen(trees[txn])
               - (IF Get(heap, trees[txn], Elem(k, 1)) # NoElem THEN 1 ELSE 0)
        /\ ForEach(heap', trees'[txn'], {}).out
               = Without(ForEach(heap, trees[txn], {}).out, k)]_vars

\* C10: DeleteMin (DeleteMax) removes the first (last) element of the
\* in-order sequence and makes Len one less; on an empty tree both leave the
\* tree empty with Len 0 and Min, Max and Get absent.
AllButLast(seq) == SubSeq(seq, 1, Len(seq) - 1)
EmptyAnswers(h, t) ==
    /\ ForEach(h, t, {}).out = <<>>
    /\ TreeLen(t) = 0
    /\ Min(h, t) = NoElem
    /\ Max(h, t) = NoElem
    /\ \A k \in Keys : Get(h, t, Elem(k, 1)) = NoElem
RemovesEnd(rest) ==
    LET before == ForEach(heap, trees[txn], {}).out
    IN /\ ~panicked'
       /\ IF before = <<>> THEN EmptyAnswers(heap', trees'[txn'])
          ELSE /\ ForEach(heap', trees'[txn'], {}).out = rest
               /\ TreeLen(trees'[txn']) = TreeLen(trees[txn]) - 1
C10_DeleteMinMax ==
    [][/\ DeleteMin => RemovesEnd(Tail(ForEach(heap, trees[txn], {}).out))
       /\ DeleteMax => RemovesEnd(AllButLast(ForEach(heap, trees[txn], {}).out))]_vars

\* C11: on every tree the program holds, for every from <= to, Range with a
\* visitor that never stops calls the visitor on exactly the elements x of
\* the ForEach sequence with from <= x < to, in the order of that sequence,
\* and returns false without panicking.
InRange(seq, lo, hi) ==
    SelectSeq(seq, LAMBDA x : Compare(lo, x) <= 0 /\ Compare(hi, x) > 0)
RangeLaw(h, t) ==
    \A b \in Bounds :
        Range(h, t, Elem(b[1], 1), Elem(b[2], 1), {})
            = [out |-> InRange(ForEach(h, t, {}).out, Elem(b[1], 1), Elem(b[2], 1)),
               done |-> FALSE, pan |-> FALSE]
C11_RangeLaw ==
    Acyclic(heap, trees) => \A t \in 1..Len(trees) : RangeLaw(heap, trees[t])

\* C12: on every tree the program holds, the empty tree included, Range with
\* from greater than to panics, having called the visitor on nothing.
Inverted == {<<a, b>> \in (0..MaxKey + 1) \X (0..MaxKey + 1) : a > b}
C12_InvertedRangePanics ==
    \A t \in 1..Len(trees) : \A b \in Inverted :
        Range(heap, trees[t], Elem(b[1], 1), Elem(b[2], 1), {})
            = [out |-> <<>>, done |-> FALSE, pan |-> TRUE]

\* C13: in a ForEach or a Range, a visitor call that returned true is the
\* last call of the traversal; the traversal returns true exactly when a call
\* returned true; and the calls made are the first calls of the traversal
\* with a visitor that never stops, all of them when none returned true.
IsPrefix(p, seq) == Len(p) <= Len(seq) /\ p = SubSeq(seq, 1, Len(p))
C13_EarlyStop ==
    /\ \A i \in 1..Len(trav.out) - 1 : trav.out[i].k \notin trav.stop
    /\ trav.done = (\E i \in 1..Len(trav.out) : trav.out[i].k \in trav.stop)
    /\ IsPrefix(trav.out, trav.full)
    /\ ~trav.done => trav.out = trav.full

\* A Range over three elements that the visitor stopped at the second.
C13_Witness ==
    /\ trav.fn = "Range"
    /\ Len(trav.full) = 3
    /\ Len(trav.out) = 2
    /\ trav.done

\* The log holds the steps of whole repairs, each repair's three if
\* statements in the order 1, 2, 3.
StepsInOrder ==
    /\ Len(trace) % 3 = 0
    /\ \A i \in 1..Len(trace) :
           /\ trace[i].step = ((i - 1) % 3) + 1
           /\ trace[i].fn = trace[i - ((i - 1) % 3)].fn

\* The second and third steps act exactly on their conditions, and act on
\* what the step before them left: the node a left rotation moved down is the
\* red left child the second step finds, and a right rotation leaves two red
\* children, which the third step flips.
LaterSteps ==
    \A i \in 1..Len(trace) :
        /\ trace[i].step = 2 => trace[i].did = (trace[i].saw.left /\ trace[i].saw.leftleft)
        /\ trace[i].step = 3 => trace[i].did = (trace[i].saw.left /\ trace[i].saw.right)
        /\ trace[i].step = 1 /\ trace[i].did => trace[i + 1].saw.left
        /\ trace[i].step = 2 /\ trace[i].did => trace[i + 1].did

\* C14 as stated: in every repair, fixUp's as well as insert's, the left
\* rotation is made only when the right child is red and the left child is
\* not red; the right rotation and the colour flip follow on their conditions,
\* in this order.
C14_Original ==
    /\ StepsInOrder
    /\ LaterSteps
    /\ \A i \in 1..Len(trace) :
           trace[i].step = 1 /\ trace[i].did
               => trace[i].saw.right /\ ~trace[i].saw.left

\* C14: fixUp (in delete, deleteMin, deleteMax) rotates left exactly when the
\* node's right child is red, whatever the colour of its left child; the
\* repair inlined in insert rotates left exactly when the right child is red
\* and the left child is not red.  Either then rotates right exactly when the
\* left child and the left-left grandchild are red, and then flips colours
\* exactly when both children are red, in this order.
C14_RepairSteps ==
    /\ StepsInOrder
    /\ LaterSteps
    /\ \A i \in 1..Len(trace) :
           /\ trace[i].step = 1 /\ trace[i].fn = "fixUp"
                  => trace[i].did = trace[i].saw.right
           /\ trace[i].step = 1 /\ trace[i].fn = "insert"
                  => trace[i].did = (trace[i].saw.right /\ ~trace[i].saw.left)

\* A fixUp that found both children red and rotated left, and in the same
\* operation a repair that rotated right and flipped.
C14_Witness ==
    /\ \E i \in 1..Len(trace) :
           /\ trace[i].fn = "fixUp" /\ trace[i].step = 1
           /\ trace[i].saw.right /\ trace[i].saw.left /\ trace[i].did
    /\ \E i \in 1..Len(trace) : trace[i].step = 2 /\ trace[i].did

=============================================================================
